---- MODULE Spec2Model ----
(***************************************************************************)
(* Model of stellarmesh: the scoped gmsh session of Mesh, the single-pass  *)
(* construction of a DAGMC MOAB model in MOABModel.make_from_mesh, the     *)
(* adjacency queries of MOABSurface / MOABVolume and the material facade.  *)
(*                                                                         *)
(* MOAB meshset handles are the naturals 1, 2, 3, ... in creation order;   *)
(* 0 is np.uint64(0), the "unset" slot of a sense pair.  A string is a     *)
(* sequence of tokens; the token "mat:" stands for the four characters of  *)
(* the material prefix, so that prefixing, prefix tests and stripping are  *)
(* computed on the sequence.                                               *)
(*                                                                         *)
(* The answers of the gmsh session (physical groups of a volume, name of a *)
(* physical group, adjacent surfaces of a volume) are drawn when the code  *)
(* asks for them and are recorded in the variable mesh; the code asks each *)
(* question once per build.                                                *)
(*                                                                         *)
(* Spec sweeps meshes with arbitrary adjacency lists; SpecFacade sweeps    *)
(* meshes of separate solids and then applies facade calls to the model.   *)
(***************************************************************************)
EXTENDS Integers, Sequences, FiniteSets, TLC

\* ---------------------------------------------------------------- bounds
MaxVolumes == 2      \* at most this many 3D entities in the mesh
MaxAdjLen  == 2      \* length of one volume's adjacency list
MaxGroup   == 2      \* physical group ids are 1..MaxGroup
MaxCalls   == 2      \* facade calls made on a returned model
MaxStack   == 3      \* volumes of a mesh whose volumes share one surface tag

\* np.uint64(0): the default of both slots of _Surface
Unset == 0

\* the gmsh tags of the mesh's surfaces
SurfaceTags    == {1, 2}
PhysicalGroups == 1..MaxGroup

\* names gmsh may report for a physical group
PhysicalNames == { <<"mat:", "iron">>, <<"steel">> }

\* material names a caller may assign
MaterialNames == { <<"iron">>, <<"plastic">> }

\* adjacency lists gmsh may report for one volume (a tag may repeat)
AdjLists == UNION { [1..n -> SurfaceTags] : n \in 0..MaxAdjLen }

VARIABLES
    op,                 \* the operation in progress
    pc,                 \* "idle", "body", "volumes", "surfaces", "returned", "raised"
    error,              \* the exception that ended the operation, or "none"
    gmsh_initialized,   \* gmsh.is_initialized(), process wide
    mesh,               \* what the gmsh session has answered so far
    core,               \* the pymoab core built by make_from_mesh
    known_surfaces,     \* surface tag -> _Surface record
    known_groups,       \* physical group id -> group meshset handle
    i,                  \* index of enumerate(volume_tags)
    volume_set_handle,  \* handle of the volume being processed
    surface_tags,       \* the adjacent surface tags not yet processed
    call                \* the last facade call made on the returned model

vars == << op, pc, error, gmsh_initialized, mesh, core, known_surfaces,
           known_groups, i, volume_set_handle, surface_tags, call >>

\* ------------------------------------------------------------ the store
NoTags == [h \in {} |-> 0]

\* pymoab.core.Core(): no meshsets, no tags, no loaded facets
Core ==
    [ n              |-> 0,
      global_id      |-> NoTags,
      geom_dimension |-> NoTags,
      category       |-> NoTags,
      name           |-> NoTags,
      surf_sense     |-> NoTags,
      faceting_tol   |-> NoTags,
      contents       |-> NoTags,
      facets         |-> NoTags,
      nloads         |-> 0,
      parents        |-> NoTags,
      children       |-> NoTags ]

\* core.tag_set_data(tag, handle, value) on one tag's table
tag_set_data(tag, h, v) ==
    [x \in (DOMAIN tag) \cup {h} |-> IF x = h THEN v ELSE tag[x]]

\* core.create_meshset(): the new set gets the next handle
create_meshset(c) ==
    LET h == c.n + 1 IN
    [c EXCEPT !.n        = h,
              !.contents = tag_set_data(@, h, {}),
              !.facets   = tag_set_data(@, h, {}),
              !.parents  = tag_set_data(@, h, <<>>),
              !.children = tag_set_data(@, h, <<>>)]

Range(s) == { s[k] : k \in DOMAIN s }

\* MOAB keeps parent and child lists ordered and free of duplicates
insert_in_vector(s, h) == IF h \in Range(s) THEN s ELSE Append(s, h)

\* (variant: only the child link is recorded)
add_parent_child_oneway(c, parent, child) ==
    [c EXCEPT !.children[parent] = insert_in_vector(@, child)]

\* core.add_parent_child(parent, child)
add_parent_child(c, parent, child) ==
    [c EXCEPT !.children[parent] = insert_in_vector(@, child),
              !.parents[child]   = insert_in_vector(@, parent)]

\* core.add_entity(set, entity)
add_entity(c, set, e) == [c EXCEPT !.contents[set] = @ \cup {e}]

\* (variant: removal takes the entity out of every set of the model)
remove_entity_everywhere(c, set, e) ==
    [c EXCEPT !.contents = [s \in DOMAIN c.contents |-> c.contents[s] \ {e}]]

\* core.remove_entity(set, entity)
remove_entity(c, set, e) == [c EXCEPT !.contents[set] = @ \ {e}]

\* (variant: the file is imported a second time)
load_file_twice(c, set) ==
    [c EXCEPT !.nloads      = @ + 2,
              !.facets[set] = @ \cup {c.nloads + 1, c.nloads + 2}]

\* core.load_file(stl, set): the facets of the file become new entities of set
load_file(c, set) ==
    [c EXCEPT !.nloads      = @ + 1,
              !.facets[set] = @ \cup {c.nloads + 1}]

\* (variant: only the sets carrying a geometric dimension are returned)
get_entities_by_handle_geometry(c) == DOMAIN c.geom_dimension

\* core.get_entities_by_handle(0): every meshset of the root set
get_entities_by_handle(c) == 1..c.n

\* every loaded facet batch of the root set
get_facets(c) == 1..c.nloads

\* core.add_entities(set, all_entities)
add_entities(c, set, es, fs) ==
    [c EXCEPT !.contents[set] = @ \cup es,
              !.facets[set]   = @ \cup fs]

get_parent_meshsets(c, h) == c.parents[h]
get_child_meshsets(c, h)  == c.children[h]

\* ---------------------------------------------------------- _Surface
_Surface(h) == [handle |-> h, forward_volume |-> Unset, reverse_volume |-> Unset]

\* (variant: only the forward slot is written, the reverse slot stays 0)
sense_data_forward_only(s) == << s.forward_volume, Unset >>

\* _Surface.sense_data
sense_data(s) == << s.forward_volume, s.reverse_volume >>

\* ---------------------------------------------------------- the session
NoMesh == [ volume_tags   |-> <<>>,
            groups        |-> <<>>,
            adjacencies   |-> <<>>,
            physical_name |-> NoTags,
            solids        |-> <<>>,
            material_solid_map |-> <<>>,
            bound         |-> NoTags,
            physical      |-> <<>> ]

\* no facade call has been made yet; edits keeps, for every (group, entity)
\* pair, the kind of the last Group.add / Group.remove applied to it
NoCall == [name |-> "none", count |-> 0, g |-> Unset, v |-> Unset, m |-> <<>>,
           error |-> "none", edits |-> NoTags]

Init ==
    /\ op = "none"
    /\ pc = "idle"
    /\ error = "none"
    /\ gmsh_initialized = FALSE
    /\ mesh = NoMesh
    /\ core = Core
    /\ known_surfaces = NoTags
    /\ known_groups = NoTags
    /\ i = 0
    /\ volume_set_handle = Unset
    /\ surface_tags = <<>>
    /\ call = NoCall

build_vars == << mesh, core, known_surfaces, known_groups, i,
                 volume_set_handle, surface_tags, call >>

\* Mesh.__exit__: gmsh.finalize() leaves the engine not initialised
exit_finalize == FALSE

\* Mesh.__enter__ for `with mesh:` of operation o.  gmsh.initialize() runs
\* when the engine is not initialised; gmsh.open may then raise, and an
\* exception inside __enter__ leaves the with statement without __exit__.
EnterAmong(o, counts) ==
    /\ pc = "idle"
    /\ op' = o
    /\ \/ /\ gmsh_initialized' = TRUE
          /\ pc' = IF o = "make_from_mesh" THEN "volumes" ELSE "body"
          /\ error' = "none"
          /\ IF o = "make_from_mesh"
             THEN \E n \in counts :
                    mesh' = [mesh EXCEPT !.volume_tags = [k \in 1..n |-> k]]
             ELSE mesh' = mesh
       \/ /\ gmsh_initialized' = TRUE
          /\ pc' = "raised"
          /\ error' = "OpenError"
          /\ mesh' = mesh
    /\ UNCHANGED << core, known_surfaces, known_groups, i,
                    volume_set_handle, surface_tags, call >>

EnterOn(o, max_volumes) == EnterAmong(o, 0..max_volumes)

Enter(o) == EnterOn(o, MaxVolumes)

\* The body of write, mesh_geometry or render: it returns or raises, and
\* the with statement runs __exit__ either way.
Body ==
    /\ pc = "body"
    /\ \/ pc' = "returned" /\ error' = "none"
       \/ pc' = "raised" /\ error' = "BodyError"
    /\ gmsh_initialized' = exit_finalize
    /\ UNCHANGED << op >>
    /\ UNCHANGED build_vars

\* ------------------------------------------------ make_from_mesh, lines 428-456
NumVolumes == Len(mesh.volume_tags)

\* (variant: the gmsh volume tag is written as the id)
volume_global_id_tag(idx, volume_tag) == volume_tag

\* the id written by line 432 for the i-th volume
volume_global_id(idx, volume_tag) == idx

\* the name written by line 450 for a physical group named mat_name
group_name(mat_name) == mat_name

\* (variant: only a volume without any physical group is rejected)
bad_group_count_empty(num_groups) == num_groups = 0

\* line 440: the volume must belong to exactly one physical group
bad_group_count(num_groups) == num_groups # 1

\* (variant: no physical group is ever found among the known ones)
group_known_never(gs, vol_group) == FALSE

\* line 446: `vol_group not in known_groups`, negated
group_known(gs, vol_group) == vol_group \in DOMAIN gs

BeginVolumeWith(lists, answers, names) ==
    /\ pc = "volumes"
    /\ i < NumVolumes
    /\ LET volume_tag == mesh.volume_tags[i + 1]
           h  == core.n + 1
           c1 == create_meshset(core)
           c2 == [c1 EXCEPT
                    !.global_id      = tag_set_data(@, h, volume_global_id(i, volume_tag)),
                    !.geom_dimension = tag_set_data(@, h, 3),
                    !.category       = tag_set_data(@, h, "Volume")]
       IN \E vol_groups \in answers :
            IF bad_group_count(Cardinality(vol_groups))
            THEN /\ core' = c2
                 /\ volume_set_handle' = h
                 /\ mesh' = [mesh EXCEPT !.groups = Append(@, vol_groups)]
                 /\ pc' = "raised"
                 /\ error' = "ValueError"
                 /\ gmsh_initialized' = exit_finalize
                 /\ UNCHANGED << op, known_surfaces, known_groups, i,
                                 surface_tags, call >>
            ELSE LET vol_group == CHOOSE g \in vol_groups : TRUE
                     known     == group_known(known_groups, vol_group)
                 IN \E mat_name \in IF known THEN {mesh.physical_name[vol_group]}
                                             ELSE names[vol_group],
                       adjacency \in lists :
                      LET g  == c2.n + 1
                          c3 == create_meshset(c2)
                          c4 == [c3 EXCEPT
                                   !.category  = tag_set_data(@, g, "Group"),
                                   !.name      = tag_set_data(@, g, group_name(mat_name)),
                                   !.global_id = tag_set_data(@, g, vol_group)]
                          group_set == IF known THEN known_groups[vol_group] ELSE g
                          c5 == IF known THEN c2 ELSE c4
                      IN /\ core' = add_entity(c5, group_set, h)
                         /\ known_groups' = tag_set_data(known_groups, vol_group, group_set)
                         /\ volume_set_handle' = h
                         /\ mesh' = [mesh EXCEPT
                                       !.groups        = Append(@, vol_groups),
                                       !.adjacencies   = Append(@, adjacency),
                                       !.physical_name = tag_set_data(@, vol_group, mat_name)]
                         /\ surface_tags' = adjacency
                         /\ IF adjacency = <<>>
                            THEN i' = i + 1 /\ pc' = "volumes"
                            ELSE i' = i /\ pc' = "surfaces"
                         /\ UNCHANGED << op, error, gmsh_initialized,
                                         known_surfaces, call >>

\* the volume loop over a mesh whose volumes may be in any physical groups,
\* of any name
BeginVolumeOn(lists) ==
    BeginVolumeWith(lists, SUBSET PhysicalGroups, [g \in PhysicalGroups |-> PhysicalNames])

\* the volume loop over a mesh with arbitrary adjacency lists
BeginVolume == BeginVolumeOn(AdjLists)

\* the adjacency list of the idx-th of separate solids, each bounded by its
\* own closed surface (the sphere of the test fixture)
SolidAdjLists(idx) == { << idx + 1 >> }

\* the volume loop over a mesh of separate solids
BeginSolid == BeginVolumeOn(SolidAdjLists(i))

\* the adjacency lists of a mesh whose volumes meet in one surface, tag 1
StackAdjLists == { <<>>, << 1 >> }

\* the volume loop over such a mesh
BeginStacked == BeginVolumeOn(StackAdjLists)

\* ------------------------------------------------ mesh_geometry, lines 172-199
\* the shapes a Geometry may list; a list may name the same shape twice
SolidShapes == 1..MaxVolumes

\* gmsh.model.occ.import_shapes_native_pointer: the volume tag of the shape,
\* the one it is already bound to, or else the next free tag
import_shapes_native_pointer(bound, s) ==
    IF s \in DOMAIN bound THEN bound[s] ELSE Cardinality(DOMAIN bound) + 1

\* lines 184-188: material_solid_map, a dict in insertion order
material_solid_map_add(map, m, solid_tag) ==
    IF \E k \in DOMAIN map : map[k].material = m
    THEN [k \in DOMAIN map |->
            IF map[k].material = m
            THEN [map[k] EXCEPT !.solid_tags = Append(@, solid_tag)]
            ELSE map[k]]
    ELSE Append(map, [material |-> m, solid_tags |-> << solid_tag >>])

\* lines 191-192: one physical group per item of the map; gmsh numbers the
\* groups 1, 2, ... in creation order
add_physical_groups(map) ==
    [k \in DOMAIN map |-> [name |-> <<"mat:">> \o map[k].material,
                           tags |-> Range(map[k].solid_tags)]]

\* gmsh.model.get_physical_groups_for_entity(3, volume_tag)
get_physical_groups_for_entity(physical, volume_tag) ==
    { g \in DOMAIN physical : volume_tag \in physical[g].tags }

\* one iteration of the loop over zip(solids, material_names); a shape that
\* is not a solid makes it raise, and the with statement runs __exit__
ImportSolid ==
    /\ op = "mesh_geometry"
    /\ pc = "body"
    /\ Len(mesh.solids) < MaxVolumes
    /\ \E s \in SolidShapes, m \in MaterialNames :
         \E dim \in IF s \in DOMAIN mesh.bound THEN {3} ELSE {2, 3} :
           IF dim # 3
           THEN /\ mesh' = [mesh EXCEPT !.solids = Append(@, << s, m >>)]
                /\ pc' = "raised"
                /\ error' = "TypeError"
                /\ gmsh_initialized' = exit_finalize
           ELSE LET solid_tag == import_shapes_native_pointer(mesh.bound, s)
                IN /\ mesh' = [mesh EXCEPT
                                 !.solids = Append(@, << s, m >>),
                                 !.bound  = tag_set_data(@, s, solid_tag),
                                 !.material_solid_map =
                                     material_solid_map_add(@, m, solid_tag)]
                   /\ UNCHANGED << pc, error, gmsh_initialized >>
    /\ UNCHANGED << op, core, known_surfaces, known_groups, i,
                    volume_set_handle, surface_tags, call >>

\* lines 189-199 after the last pair: the physical groups are added, the
\* mesh is generated and saved, and the with statement runs __exit__
GenerateMesh ==
    /\ op = "mesh_geometry"
    /\ pc = "body"
    /\ mesh' = [mesh EXCEPT !.physical = add_physical_groups(mesh.material_solid_map)]
    /\ pc' = "returned"
    /\ gmsh_initialized' = exit_finalize
    /\ UNCHANGED << op, error, core, known_surfaces, known_groups, i,
                    volume_set_handle, surface_tags, call >>

\* a Mesh has been returned to the caller of mesh_geometry
Meshed == op = "mesh_geometry" /\ pc = "returned"

\* Mesh.__enter__ for the `with mesh:` of make_from_mesh on the returned
\* Mesh: gmsh.model.get_entities(3) lists the imported volumes
EnterMeshed ==
    /\ Meshed
    /\ op' = "make_from_mesh"
    /\ gmsh_initialized' = TRUE
    /\ \/ /\ pc' = "volumes"
          /\ error' = "none"
          /\ mesh' = [mesh EXCEPT
                        !.volume_tags = [k \in 1..Cardinality(Range(mesh.bound)) |-> k]]
       \/ /\ pc' = "raised"
          /\ error' = "OpenError"
          /\ mesh' = mesh
    /\ UNCHANGED << core, known_surfaces, known_groups, i,
                    volume_set_handle, surface_tags, call >>

\* the volume loop over the mesh mesh_geometry produced, its solids separate
BeginMeshed ==
    BeginVolumeWith(SolidAdjLists(i),
                    { get_physical_groups_for_entity(mesh.physical, mesh.volume_tags[i + 1]) },
                    [g \in DOMAIN mesh.physical |-> { mesh.physical[g].name }])

\* ------------------------------------------------ make_from_mesh, lines 465-509
\* line 471: the first encounter makes the current volume the forward volume
first_encounter(h, v) == [_Surface(h) EXCEPT !.forward_volume = v]

\* (variant: a later encounter overwrites the forward volume)
later_encounter_forward(surface, v) == [surface EXCEPT !.forward_volume = v]

\* line 502: a later encounter makes the current volume the reverse volume
later_encounter(surface, v) == [surface EXCEPT !.reverse_volume = v]

SurfaceStep ==
    /\ pc = "surfaces"
    /\ surface_tags # <<>>
    /\ LET surface_tag == Head(surface_tags)
           rest        == Tail(surface_tags)
       IN /\ IF surface_tag \notin DOMAIN known_surfaces
             THEN LET h       == core.n + 1
                      c1      == create_meshset(core)
                      surface == first_encounter(h, volume_set_handle)
                      c2 == [c1 EXCEPT
                               !.global_id      = tag_set_data(@, h, surface_tag),
                               !.geom_dimension = tag_set_data(@, h, 2),
                               !.category       = tag_set_data(@, h, "Surface"),
                               !.surf_sense     = tag_set_data(@, h, sense_data(surface))]
                      c3 == load_file(c2, h)
                  IN /\ known_surfaces' = tag_set_data(known_surfaces, surface_tag, surface)
                     /\ core' = add_parent_child(c3, volume_set_handle, surface.handle)
             ELSE LET surface == later_encounter(known_surfaces[surface_tag],
                                                 volume_set_handle)
                      c1 == [core EXCEPT
                               !.surf_sense = tag_set_data(@, surface.handle,
                                                           sense_data(surface))]
                  IN /\ known_surfaces' = tag_set_data(known_surfaces, surface_tag, surface)
                     /\ core' = add_parent_child(c1, volume_set_handle, surface.handle)
          /\ surface_tags' = rest
          /\ IF rest = <<>>
             THEN i' = i + 1 /\ pc' = "volumes"
             ELSE i' = i /\ pc' = "surfaces"
    /\ UNCHANGED << op, error, gmsh_initialized, mesh, known_groups,
                    volume_set_handle, call >>

\* ------------------------------------------------ make_from_mesh, lines 511-520
\* (variant: the loop stops one volume early)
volumes_exhausted_early(idx, n) == idx + 1 >= n

\* the for loop over enumerate(volume_tags) ends after the last volume
volumes_exhausted(idx, n) == idx = n

\* the tolerance of line 517
FACETING_TOL == "1e-3"

Finish ==
    /\ pc = "volumes"
    /\ volumes_exhausted(i, NumVolumes)
    /\ LET all_entities == get_entities_by_handle(core)
           all_facets   == get_facets(core)
           file_set     == core.n + 1
           c1 == create_meshset(core)
           c2 == [c1 EXCEPT !.faceting_tol = tag_set_data(@, file_set, FACETING_TOL)]
       IN core' = add_entities(c2, file_set, all_entities, all_facets)
    /\ pc' = "returned"
    /\ gmsh_initialized' = exit_finalize
    /\ UNCHANGED << op, error, mesh, known_surfaces, known_groups, i,
                    volume_set_handle, surface_tags, call >>

\* ------------------------------------------------ queries on a model
\* (variant: the filter keeps every entity of at least the dimension)
_get_entities_of_geom_dimension_at_least(c, dim) ==
    { h \in DOMAIN c.geom_dimension : c.geom_dimension[h] >= dim }

\* MOABModel._get_entities_of_geom_dimension
_get_entities_of_geom_dimension(c, dim) ==
    { h \in DOMAIN c.geom_dimension : c.geom_dimension[h] = dim }

surfaces(c) == _get_entities_of_geom_dimension(c, 2)
volumes(c)  == _get_entities_of_geom_dimension(c, 3)

\* MOABSurface.adjacent_volumes, MOABVolume.adjacent_surfaces
adjacent_volumes(c, s)  == get_parent_meshsets(c, s)
adjacent_surfaces(c, v) == get_child_meshsets(c, v)

\* a model has been returned to the caller of make_from_mesh
Returned == op = "make_from_mesh" /\ pc = "returned"

\* ------------------------------------------------ the material facade
\* f"mat:{name}"
mat_prefixed(m) == <<"mat:">> \o m

\* name.startswith("mat:")
has_prefix(name) == Len(name) > 0 /\ name[1] = "mat:"

\* the name with the leading "mat:" removed
strip_prefix(name) == Tail(name)

\* Model.groups: the entities of category Group
groups(c) == { h \in DOMAIN c.category : c.category[h] = "Group" }

\* Volume.groups: the Groups the volume is a member of
volume_groups(c, v) == { g \in groups(c) : v \in c.contents[g] }

\* the Groups of the volume whose name has the material prefix
material_groups(c, v) == { g \in volume_groups(c, v) : has_prefix(c.name[g]) }

\* (variant: the getter answers with the first material group it finds)
material_first_found(c, v) ==
    LET gs == material_groups(c, v) IN
    IF gs = {} THEN [error |-> "NoMaterialGroup", value |-> <<>>]
    ELSE [error |-> "none",
          value |-> strip_prefix(c.name[CHOOSE g \in gs : \A o \in gs : g <= o])]

\* Volume.material (getter)
material(c, v) ==
    LET gs == material_groups(c, v) IN
    IF gs = {} THEN [error |-> "NoMaterialGroup", value |-> <<>>]
    ELSE IF Cardinality(gs) > 1 THEN [error |-> "AmbiguousMaterial", value |-> <<>>]
    ELSE [error |-> "none", value |-> strip_prefix(c.name[CHOOSE g \in gs : TRUE])]

\* a global_id not used by any Group of the model
fresh_group_id(c) ==
    LET ids == { c.global_id[g] : g \in groups(c) } IN
    IF ids = {} THEN 1 ELSE 1 + (CHOOSE x \in ids : \A y \in ids : y <= x)

\* Model.create_group(name): the new Group has handle c.n + 1
create_group(c, name) ==
    LET g  == c.n + 1
        c1 == create_meshset(c)
    IN [c1 EXCEPT !.category  = tag_set_data(@, g, "Group"),
                  !.name      = tag_set_data(@, g, name),
                  !.global_id = tag_set_data(@, g, fresh_group_id(c))]

\* the Group named name that the setter joins, if there is one
groups_named(c, name) == { g \in groups(c) : c.name[g] = name }

\* Volume.material = m, first half: detach from the current material group
detach_material(c, v) ==
    remove_entity(c, CHOOSE g \in material_groups(c, v) : TRUE, v)

\* Volume.material = m, second half: join (creating if absent) "mat:<m>"
attach_material(c, v, m) ==
    LET found == groups_named(c, mat_prefixed(m)) IN
    IF found = {}
    THEN add_entity(create_group(c, mat_prefixed(m)), c.n + 1, v)
    ELSE add_entity(c, CHOOSE g \in found : \A o \in found : g <= o, v)

\* the Group attach_material adds the volume to
joined_group(c, m) ==
    LET found == groups_named(c, mat_prefixed(m)) IN
    IF found = {} THEN c.n + 1 ELSE CHOOSE g \in found : \A o \in found : g <= o

\* the log of membership edits after one more edit
log_edit(edits, g, e, kind) == tag_set_data(edits, << g, e >>, kind)

\* (variant: the setter joins the new group without leaving the old one)
set_material_keep(c, v, m) == attach_material(c, v, m)

\* Volume.material = m (setter)
set_material(c, v, m) == attach_material(detach_material(c, v), v, m)

SetMaterial(v, m) ==
    /\ Returned
    /\ call.count < MaxCalls
    /\ v \in volumes(core)
    /\ LET got == material(core, v)
           old == CHOOSE g \in material_groups(core, v) : TRUE
           new == joined_group(detach_material(core, v), m)
       IN
       /\ core' = IF got.error = "none" THEN set_material(core, v, m) ELSE core
       /\ call' = [name |-> "set_material", count |-> call.count + 1,
                   g |-> IF got.error = "none" THEN new ELSE Unset,
                   v |-> v, m |-> m, error |-> got.error,
                   edits |-> IF got.error = "none"
                             THEN log_edit(log_edit(call.edits, old, v, "remove"),
                                           new, v, "add")
                             ELSE call.edits]
    /\ UNCHANGED << op, pc, error, gmsh_initialized, mesh, known_surfaces,
                    known_groups, i, volume_set_handle, surface_tags >>

\* (variant: the setter attaches first and detaches afterwards)
setter_first_attach(c, v, m) == attach_material(c, v, m)

\* the first store update of the setter
setter_first(c, v, m) == detach_material(c, v)

\* the second store update of the setter
setter_second(c, v, m) == attach_material(c, v, m)

\* Volume.material = m up to its first store update; a volume without
\* exactly one material group makes the setter raise before any update
SetterDetach(v, m) ==
    /\ Returned
    /\ call.name # "detached"
    /\ call.count < MaxCalls
    /\ v \in volumes(core)
    /\ LET got == material(core, v) IN
       IF got.error = "none"
       THEN /\ core' = setter_first(core, v, m)
            /\ call' = [call EXCEPT !.name = "detached",
                                     !.g = CHOOSE g \in material_groups(core, v) : TRUE,
                                     !.v = v, !.m = m, !.error = "none"]
       ELSE /\ core' = core
            /\ call' = [call EXCEPT !.name = "set_material", !.count = @ + 1,
                                     !.g = Unset, !.v = v, !.m = m,
                                     !.error = got.error]
    /\ UNCHANGED << op, pc, error, gmsh_initialized, mesh, known_surfaces,
                    known_groups, i, volume_set_handle, surface_tags >>

\* Volume.material = m from its first store update to its return
SetterAttach ==
    /\ Returned
    /\ call.name = "detached"
    /\ core' = setter_second(core, call.v, call.m)
    /\ call' = [call EXCEPT !.name = "set_material", !.count = @ + 1,
                             !.g = joined_group(core, call.m),
                             !.edits = log_edit(log_edit(@, call.g, call.v, "remove"),
                                                joined_group(core, call.m), call.v, "add")]
    /\ UNCHANGED << op, pc, error, gmsh_initialized, mesh, known_surfaces,
                    known_groups, i, volume_set_handle, surface_tags >>

\* ------------------------------------------------ the group facade
\* names a caller may give a Group
GroupNames == { <<"test_group">>, <<"mat:", "plastic">> }

\* Group.remove(entity)
group_remove(c, g, e) == remove_entity(c, g, e)

\* Group.add(entity)
group_add(c, g, e) == add_entity(c, g, e)

\* entity in group
group_contains(c, g, e) == e \in c.contents[g]

\* Group.name = name
group_rename(c, g, name) == [c EXCEPT !.name = tag_set_data(@, g, name)]

\* the entities a caller holds: the Volumes and Surfaces of the model
entities(c) == volumes(c) \cup surfaces(c)

facade_unchanged == UNCHANGED << op, pc, error, gmsh_initialized, mesh, known_surfaces,
                                 known_groups, i, volume_set_handle, surface_tags >>

CreateGroup(name) ==
    /\ Returned
    /\ call.count < MaxCalls
    /\ core' = create_group(core, name)
    /\ call' = [call EXCEPT !.name = "create_group", !.count = @ + 1,
                             !.g = core.n + 1, !.v = Unset, !.m = name,
                             !.error = "none"]
    /\ facade_unchanged

GroupAdd(g, e) ==
    /\ Returned
    /\ call.count < MaxCalls
    /\ core' = group_add(core, g, e)
    /\ call' = [call EXCEPT !.name = "add", !.count = @ + 1,
                             !.g = g, !.v = e, !.m = <<>>, !.error = "none",
                             !.edits = log_edit(@, g, e, "add")]
    /\ facade_unchanged

GroupRemove(g, e) ==
    /\ Returned
    /\ call.count < MaxCalls
    /\ core' = group_remove(core, g, e)
    /\ call' = [call EXCEPT !.name = "remove", !.count = @ + 1,
                             !.g = g, !.v = e, !.m = <<>>, !.error = "none",
                             !.edits = log_edit(@, g, e, "remove")]
    /\ facade_unchanged

GroupRename(g, name) ==
    /\ Returned
    /\ call.count < MaxCalls
    /\ core' = group_rename(core, g, name)
    /\ call' = [call EXCEPT !.name = "rename", !.count = @ + 1,
                             !.g = g, !.v = Unset, !.m = name, !.error = "none"]
    /\ facade_unchanged

\* reading Volume.material: the value or the error is handed to the caller
ReadMaterial(v) ==
    /\ Returned
    /\ call.count < MaxCalls
    /\ core' = core
    /\ call' = [call EXCEPT !.name = "material", !.count = @ + 1,
                             !.g = Unset, !.v = v, !.m = material(core, v).value,
                             !.error = material(core, v).error]
    /\ facade_unchanged

CreateGroupNext == \E name \in GroupNames : CreateGroup(name)
GroupAddNext    == \E g \in groups(core) : \E e \in entities(core) : GroupAdd(g, e)
GroupRemoveNext == \E g \in groups(core) : \E e \in entities(core) : GroupRemove(g, e)
GroupRenameNext == \E g \in groups(core) : \E name \in GroupNames : GroupRename(g, name)
ReadMaterialNext == \E v \in volumes(core) : ReadMaterial(v)

GroupsNext == CreateGroupNext \/ GroupAddNext \/ GroupRemoveNext
                 \/ GroupRenameNext \/ ReadMaterialNext

FacadeNext == \E v \in volumes(core) : \E m \in MaterialNames : SetMaterial(v, m)

BuildNext == Enter("make_from_mesh") \/ BeginVolume \/ SurfaceStep \/ Finish

SessionNext == Enter("write") \/ Enter("mesh_geometry") \/ Enter("render") \/ Body

\* builds over arbitrary meshes, and the other users of the gmsh session
Next == BuildNext \/ SessionNext

Spec == Init /\ [][Next]_vars

\* builds over meshes of separate solids, followed by facade calls on the
\* returned model
FacadeBuildNext == Enter("make_from_mesh") \/ BeginSolid \/ SurfaceStep \/ Finish

NextFacade == FacadeBuildNext \/ FacadeNext

SpecFacade == Init /\ [][NextFacade]_vars

\* builds over meshes of separate solids, followed by group edits and
\* material reads on the returned model
NextGroups == FacadeBuildNext \/ GroupsNext

SpecGroups == Init /\ [][NextGroups]_vars

SetterDetachNext == \E v \in volumes(core) : \E m \in MaterialNames : SetterDetach(v, m)

\* builds over meshes of separate solids, followed by material assignments
\* observed between their two store updates
NextSetter == FacadeBuildNext \/ SetterDetachNext \/ SetterAttach

SpecSetter == Init /\ [][NextSetter]_vars

\* builds over meshes of up to MaxStack volumes meeting in one surface
NextStack == EnterOn("make_from_mesh", MaxStack) \/ BeginStacked \/ SurfaceStep \/ Finish

SpecStack == Init /\ [][NextStack]_vars

\* mesh_geometry over any list of (solid, material) pairs, followed by a
\* build over the mesh it returned
NextMesh == Enter("mesh_geometry") \/ ImportSolid \/ GenerateMesh
              \/ EnterMeshed \/ BeginMeshed \/ SurfaceStep \/ Finish

SpecMesh == Init /\ [][NextMesh]_vars

\* ================================================================ properties
InSeq(x, seq) == \E k \in DOMAIN seq : seq[k] = x

\* position of a Volume in creation order, 0-based
IndexOf(v) == Cardinality({ w \in volumes(core) : w < v })

\* the Volume created for the k-th mesh volume (0-based)
VolumeAt(k) == CHOOSE v \in volumes(core) : IndexOf(v) = k

\* mesh volumes (1-based positions) whose adjacency list holds tag t
ListedBy(t) == { k \in DOMAIN mesh.adjacencies : InSeq(t, mesh.adjacencies[k]) }

\* number of encounters of tag t the sweep has handled so far
Seen(t) ==
    Cardinality(UNION { { <<k, j>> : j \in { x \in DOMAIN mesh.adjacencies[k] :
                                              mesh.adjacencies[k][x] = t } } :
                        k \in DOMAIN mesh.adjacencies })
    - Cardinality({ j \in DOMAIN surface_tags : surface_tags[j] = t })

Least(S)    == CHOOSE x \in S : \A y \in S : x <= y
Greatest(S) == CHOOSE x \in S : \A y \in S : y <= x

\* C1: a returned model has exactly one Volume per mesh volume, and the
\* Volume created for the i-th mesh volume carries global_id i, so the ids
\* are exactly 0..N-1.
C1_VolumeIds ==
    Returned =>
        /\ Cardinality(volumes(core)) = NumVolumes
        /\ \A v \in volumes(core) :
              /\ core.category[v] = "Volume"
              /\ core.global_id[v] = IndexOf(v)
        /\ { core.global_id[v] : v \in volumes(core) } = 0..(NumVolumes - 1)

C1_Witness ==
    /\ Returned
    /\ NumVolumes >= 2
    /\ core.global_id[VolumeAt(1)] = 1

\* C2: a surface tag listed by two volumes ends with the earlier volume as
\* forward_volume and the later one as reverse_volume, and no step of the
\* sweep changes a forward_volume once it is written.
C2_ForwardThenReverse ==
    /\ [](Returned =>
            \A t \in SurfaceTags :
                Cardinality(ListedBy(t)) = 2 =>
                    /\ known_surfaces[t].forward_volume = VolumeAt(Least(ListedBy(t)) - 1)
                    /\ known_surfaces[t].reverse_volume = VolumeAt(Greatest(ListedBy(t)) - 1)
                    /\ core.surf_sense[known_surfaces[t].handle]
                         = << VolumeAt(Least(ListedBy(t)) - 1),
                              VolumeAt(Greatest(ListedBy(t)) - 1) >>)
    /\ [][\A t \in DOMAIN known_surfaces :
            /\ t \in DOMAIN known_surfaces'
            /\ known_surfaces'[t].forward_volume = known_surfaces[t].forward_volume
            /\ known_surfaces[t].forward_volume # Unset]_vars

C2_Witness ==
    /\ Returned
    /\ \E t \in SurfaceTags :
          /\ Cardinality(ListedBy(t)) = 2
          /\ known_surfaces[t].reverse_volume # known_surfaces[t].forward_volume
          /\ known_surfaces[t].reverse_volume # Unset

\* distinct Volumes a Surface is adjacent to
NumAdjacent(s) == Cardinality(Range(adjacent_volumes(core, s)))

\* C3: both slots of a Surface's sense pair are set exactly when the Surface
\* is adjacent to exactly two distinct Volumes, and a Surface adjacent to one
\* Volume has forward_volume set and reverse_volume unset.
C3_SensePairMatchesAdjacency ==
    Returned =>
        \A s \in surfaces(core) :
            /\ (core.surf_sense[s][1] # Unset /\ core.surf_sense[s][2] # Unset)
                  <=> NumAdjacent(s) = 2
            /\ NumAdjacent(s) = 1 =>
                  (core.surf_sense[s][1] # Unset /\ core.surf_sense[s][2] = Unset)

\* C4: a third encounter of a surface tag ends the build with
\* MalformedAdjacency and leaves the surface's record as it was.
C4_ThirdEncounterFails ==
    [][(pc = "surfaces" /\ Seen(Head(surface_tags)) >= 2) =>
          /\ pc' = "raised"
          /\ error' = "MalformedAdjacency"
          /\ known_surfaces' = known_surfaces]_vars

\* C5: the build raises exactly when it reaches a volume whose number of
\* physical groups is not 1, and at that point nothing has been created for
\* the volume beyond its own meshset: no group, no membership, no surface.
C5_MaterialCount ==
    /\ (\E k \in DOMAIN mesh.groups : Cardinality(mesh.groups[k]) # 1)
          <=> error = "ValueError"
    /\ error = "ValueError" =>
          /\ pc = "raised"
          /\ Len(mesh.groups) = i + 1
          /\ Cardinality(mesh.groups[i + 1]) # 1
          /\ \A k \in 1..i : Cardinality(mesh.groups[k]) = 1
          /\ Len(mesh.adjacencies) = i
          /\ core.n = volume_set_handle
          /\ volume_groups(core, volume_set_handle) = {}
          /\ adjacent_surfaces(core, volume_set_handle) = <<>>
          /\ Cardinality(groups(core)) = Cardinality(DOMAIN known_groups)

C5_Witness ==
    /\ error = "ValueError"
    /\ i = 1
    /\ Cardinality(mesh.groups[2]) = 2
    /\ groups(core) # {}

\* C6: a model is returned only after every volume has been processed and
\* the file-level entity created; a build that raised has returned nothing.
C6_NoPartialModel ==
    /\ Returned =>
          /\ error = "none"
          /\ i = NumVolumes
          /\ Len(mesh.groups) = NumVolumes
          /\ Len(mesh.adjacencies) = NumVolumes
          /\ Cardinality(volumes(core)) = NumVolumes
          /\ Cardinality(DOMAIN core.faceting_tol) = 1
          /\ \A f \in DOMAIN core.faceting_tol : volumes(core) \subseteq core.contents[f]
    /\ (op = "make_from_mesh" /\ error # "none") =>
          (pc = "raised" /\ DOMAIN core.faceting_tol = {})

C6_Witness ==
    /\ Returned
    /\ NumVolumes >= 2
    /\ surfaces(core) # {}

\* C7: once a build, write, mesh generation or render has ended, by return
\* or by any exception, the gmsh engine is not initialised.
C7_SessionReleased ==
    pc \in {"returned", "raised"} => ~gmsh_initialized

\* C8: in a returned model every Volume is a member of exactly one Group,
\* and the name of that Group begins with "mat:".
C8_OneMaterialGroup ==
    (Returned /\ call.count = 0) =>
        \A v \in volumes(core) :
            /\ Cardinality(volume_groups(core, v)) = 1
            /\ \A g \in volume_groups(core, v) : has_prefix(core.name[g])

\* C9: in a returned model S is a child of V exactly when V is a parent of
\* S, and exactly when the mesh listed the tag of S for V.
C9_AdjacencyConsistent ==
    Returned =>
        /\ \A v \in volumes(core) : \A s \in surfaces(core) :
              InSeq(s, adjacent_surfaces(core, v)) <=> InSeq(v, adjacent_volumes(core, s))
        /\ \A v \in volumes(core) : \A t \in SurfaceTags :
              InSeq(t, mesh.adjacencies[IndexOf(v) + 1])
                 <=> /\ t \in DOMAIN known_surfaces
                     /\ InSeq(known_surfaces[t].handle, adjacent_surfaces(core, v))
        /\ \A v \in volumes(core) :
              Range(adjacent_surfaces(core, v)) \subseteq surfaces(core)
        /\ surfaces(core) = { known_surfaces[t].handle : t \in DOMAIN known_surfaces }

C9_Witness ==
    /\ Returned
    /\ \E s \in surfaces(core) : Len(adjacent_volumes(core, s)) = 2
    /\ \E v \in volumes(core) : Len(adjacent_surfaces(core, v)) = 2

\* the setter has just been applied to volume v with material m, and v
\* had exactly one material group before
SetMaterialStep(v, m) ==
    /\ Returned
    /\ call'.count = call.count + 1
    /\ call'.name = "set_material"
    /\ call'.v = v
    /\ call'.m = m
    /\ Cardinality(material_groups(core, v)) = 1

\* C10: after V.material = m on a Volume with exactly one material group, V
\* reads material m and is a member of a Group named "mat:" + m, it has left
\* its previous material Group when that is another Group, the previous Group
\* still exists under its name, and no other Volume's memberships changed.
C10_SetMaterial ==
    [][\A v \in volumes(core) : \A m \in MaterialNames :
         SetMaterialStep(v, m) =>
            LET old == CHOOSE g \in material_groups(core, v) : TRUE
                new == CHOOSE g \in material_groups(core', v) : TRUE
            IN /\ material(core', v) = [error |-> "none", value |-> m]
               /\ core'.name[new] = mat_prefixed(m)
               /\ v \in core'.contents[new]
               /\ (new \in groups(core)) <=> (groups_named(core, mat_prefixed(m)) # {})
               /\ groups(core') = groups(core) \cup {new}
               /\ new # old => v \notin core'.contents[old]
               /\ old \in groups(core')
               /\ core'.name[old] = core.name[old]
               /\ \A w \in volumes(core) \ {v} :
                     volume_groups(core', w) = volume_groups(core, w)
               /\ volumes(core') = volumes(core)]_vars

C10_Witness ==
    /\ Returned
    /\ call.name = "set_material"
    /\ call.error = "none"
    /\ material(core, call.v) = [error |-> "none", value |-> call.m]
    /\ \E g \in groups(core) : core.contents[g] = {} /\ g \in Range(known_groups)
    /\ \E g \in groups(core) : g \notin Range(known_groups) /\ call.v \in core.contents[g]

CallStep(kind) == Returned /\ call'.count = call.count + 1 /\ call'.name = kind

\* the tags and relations of every entity of c are the same in d
SameEntities(c, d) ==
    /\ d.n >= c.n
    /\ \A h \in DOMAIN c.category : h \in DOMAIN d.category /\ d.category[h] = c.category[h]
    /\ \A h \in DOMAIN c.geom_dimension :
          h \in DOMAIN d.geom_dimension /\ d.geom_dimension[h] = c.geom_dimension[h]
    /\ \A h \in DOMAIN c.global_id : h \in DOMAIN d.global_id /\ d.global_id[h] = c.global_id[h]
    /\ \A h \in DOMAIN c.surf_sense : h \in DOMAIN d.surf_sense /\ d.surf_sense[h] = c.surf_sense[h]
    /\ \A h \in 1..c.n : /\ d.parents[h] = c.parents[h]
                         /\ d.children[h] = c.children[h]
                         /\ d.facets[h] = c.facets[h]

\* C12: after any sequence of create_group, add and remove calls an entity
\* is in a Group exactly when the last add / remove applied to the pair was
\* an add; a remove takes the entity out of that one Group and changes
\* nothing else, and no call makes an entity, a tag or a relation disappear.
C12_MembershipFollowsEdits ==
    /\ [](Returned =>
            \A p \in DOMAIN call.edits :
                group_contains(core, p[1], p[2]) <=> call.edits[p] = "add")
    /\ [][CallStep("remove") =>
            /\ core'.n = core.n
            /\ core'.name = core.name
            /\ core'.contents =
                  [core.contents EXCEPT ![call'.g] = @ \ {call'.v}]]_vars
    /\ [][Returned => SameEntities(core, core')]_vars

C12_Witness ==
    /\ Returned
    /\ call.name = "remove"
    /\ call.count = 2
    /\ call.edits[<< call.g, call.v >>] = "remove"
    /\ \E p \in DOMAIN call.edits : call.edits[p] = "add"
    /\ call.v \in volumes(core)
    /\ core.contents[call.g] = {}
    /\ call.g \in groups(core)

\* the Groups holding v whose name starts with the material prefix, read
\* from the tables of the store
PrefixedGroupsOf(v) ==
    { g \in 1..core.n :
        /\ g \in DOMAIN core.category
        /\ core.category[g] = "Group"
        /\ v \in core.contents[g]
        /\ core.name[g] # <<>>
        /\ Head(core.name[g]) = "mat:" }

\* C13: a read of Volume.material answers the name, without "mat:", of the
\* one prefixed Group holding the volume, NoMaterialGroup when there is none
\* and AmbiguousMaterial when there are several.
C13_MaterialRead ==
    (Returned /\ call.name = "material") =>
        LET gs == PrefixedGroupsOf(call.v) IN
        /\ gs = {} <=> call.error = "NoMaterialGroup"
        /\ Cardinality(gs) > 1 <=> call.error = "AmbiguousMaterial"
        /\ Cardinality(gs) = 1 <=> call.error = "none"
        /\ Cardinality(gs) = 1 =>
              \A g \in gs : core.name[g] = <<"mat:">> \o call.m

C13_Witness ==
    /\ Returned
    /\ call.name = "material"
    /\ call.error = "AmbiguousMaterial"
    /\ \E p \in DOMAIN call.edits : call.edits[p] = "add"

\* C14: every surface tag met so far has had its facets imported exactly
\* once, into its own Surface; an import happens only in the step that meets
\* a tag for the first time, and a later encounter imports nothing.
C14_FacetsImportedOnce ==
    /\ [](/\ core.nloads = Cardinality(DOMAIN known_surfaces)
          /\ \A t \in DOMAIN known_surfaces :
                Cardinality(core.facets[known_surfaces[t].handle]) = 1
          /\ \A t, u \in DOMAIN known_surfaces :
                t # u => core.facets[known_surfaces[t].handle]
                           \cap core.facets[known_surfaces[u].handle] = {}
          /\ \A h \in volumes(core) \cup groups(core) : core.facets[h] = {})
    /\ [][(pc = "surfaces" /\ Head(surface_tags) \in DOMAIN known_surfaces) =>
             /\ core'.nloads = core.nloads
             /\ core'.facets = core.facets]_vars
    /\ [][core'.nloads # core.nloads =>
             /\ pc = "surfaces"
             /\ Head(surface_tags) \notin DOMAIN known_surfaces
             /\ core'.nloads = core.nloads + 1
             /\ core'.facets[known_surfaces'[Head(surface_tags)].handle]
                   = {core'.nloads}]_vars

C14_Witness ==
    /\ Returned
    /\ \E t \in DOMAIN known_surfaces :
          /\ Seen(t) >= 2
          /\ Cardinality(ListedBy(t)) = 2
          /\ Cardinality(core.facets[known_surfaces[t].handle]) = 1

\* the physical-group id of the k-th mesh volume (1-based)
GroupIdOf(k) == CHOOSE g \in mesh.groups[k] : TRUE

\* C15: at every point of a build the Groups are keyed by physical-group id:
\* there are as many Groups as distinct ids among the accepted volumes, two
\* Volumes share a Group exactly when their ids are equal, and each Group's
\* global_id is the id of the volumes it holds.
C15_GroupsKeyedById ==
    LET accepted == { v \in volumes(core) : IndexOf(v) < Len(mesh.adjacencies) }
        id       == [v \in accepted |-> GroupIdOf(IndexOf(v) + 1)]
        ids      == { id[v] : v \in accepted }
        gs       == groups(core)
    IN /\ Cardinality(gs) = Cardinality(ids)
       /\ { core.global_id[g] : g \in gs } = ids
       /\ \A v, w \in accepted :
             (\E g \in gs : v \in core.contents[g] /\ w \in core.contents[g])
                <=> id[v] = id[w]
       /\ \A v \in accepted : \A g \in gs :
             v \in core.contents[g] <=> core.global_id[g] = id[v]

C15_Witness ==
    /\ Returned
    /\ Cardinality(groups(core)) = 1
    /\ Len(mesh.adjacencies) = 2
    /\ \E g \in groups(core) : core.contents[g] = volumes(core)

\* C16: in every state of the sweep the stored surf_sense tag of each created
\* Surface is the pair (forward_volume, reverse_volume) of the record kept for
\* its tag: reverse slot 0 after the first encounter, both slots rewritten
\* when the reverse volume is set.
C16_TagMatchesRecord ==
    /\ \A t \in DOMAIN known_surfaces :
          LET s == known_surfaces[t]
          IN /\ s.handle \in DOMAIN core.surf_sense
             /\ core.surf_sense[s.handle] = << s.forward_volume, s.reverse_volume >>
    /\ { known_surfaces[t].handle : t \in DOMAIN known_surfaces } = surfaces(core)
    /\ DOMAIN core.surf_sense = surfaces(core)

C16_Witness ==
    /\ op = "make_from_mesh"
    /\ pc = "surfaces"
    /\ \E t, u \in DOMAIN known_surfaces :
          /\ known_surfaces[t].reverse_volume # Unset
          /\ core.surf_sense[known_surfaces[t].handle][2] = known_surfaces[t].reverse_volume
          /\ known_surfaces[u].reverse_volume = Unset
          /\ core.surf_sense[known_surfaces[u].handle][2] = Unset

\* C17: the setter detaches before it attaches: between its two store
\* updates the Volume is in no Group with the material prefix, so no state of
\* an assignment shows it in two such Groups, and the second update puts it
\* into the Group named "mat:<m>" and into no other.
C17_DetachBeforeAttach ==
    /\ [](Returned =>
            /\ \A v \in volumes(core) : Cardinality(material_groups(core, v)) <= 1
            /\ call.name = "detached" => material_groups(core, call.v) = {})
    /\ [][(Returned /\ call.name = "detached") =>
            /\ Cardinality(material_groups(core', call.v)) = 1
            /\ \A g \in material_groups(core', call.v) :
                  core'.name[g] = mat_prefixed(call.m)]_vars

C17_Witness ==
    /\ Returned
    /\ call.name = "detached"
    /\ call.v \in volumes(core)
    /\ call.g \in groups(core)
    /\ core.name[call.g] # mat_prefixed(call.m)
    /\ material_groups(core, call.v) = {}

\* the file-level entities: the sets carrying the faceting_tol tag
FileSets == DOMAIN core.faceting_tol

\* C18: the file-level entity appears only in the step taken after the last
\* volume has been processed; a returned model has exactly one, tagged
\* faceting_tol with the fixed constant, holding every Volume, Surface and
\* Group of the pass and not itself, and it is neither a Volume nor a Surface.
C18_FileSetLast ==
    /\ [](FileSets # {} => (Returned /\ i = NumVolumes /\ surface_tags = <<>>))
    /\ [][core'.faceting_tol # core.faceting_tol =>
             /\ pc = "volumes" /\ i = NumVolumes
             /\ Cardinality(volumes(core)) = NumVolumes
             /\ pc' = "returned"]_vars
    /\ [](Returned =>
            /\ Cardinality(FileSets) = 1
            /\ \A f \in FileSets :
                  /\ core.faceting_tol[f] = FACETING_TOL
                  /\ core.contents[f] = volumes(core) \cup surfaces(core) \cup groups(core)
                  /\ core.contents[f] = (1..core.n) \ {f}
                  /\ f \notin volumes(core) \cup surfaces(core) \cup groups(core)
                  /\ f \notin DOMAIN core.category)

C18_Witness ==
    /\ Returned
    /\ NumVolumes = 2
    /\ Cardinality(surfaces(core)) = 2
    /\ Cardinality(groups(core)) = 2
    /\ \E f \in FileSets : Cardinality(core.contents[f]) = 6

\* the surface tags appearing in some volume's adjacency list
MeshSurfaceTags == UNION { Range(mesh.adjacencies[k]) : k \in DOMAIN mesh.adjacencies }

\* the sets of the store carrying category cat
OfCategory(cat) == { h \in DOMAIN core.category : core.category[h] = cat }

\* C19: on a built model `volumes` is exactly the Volumes, one per mesh
\* volume, and `surfaces` is exactly the Surfaces, one per distinct surface
\* tag of the adjacency lists (a shared tag gives one Surface); no Group and
\* no file-level entity is in either.
C19_VolumesAndSurfaces ==
    Returned =>
        /\ volumes(core) = OfCategory("Volume")
        /\ surfaces(core) = OfCategory("Surface")
        /\ volumes(core) \cap surfaces(core) = {}
        /\ Cardinality(volumes(core)) = NumVolumes
        /\ Cardinality(surfaces(core)) = Cardinality(MeshSurfaceTags)
        /\ \A t \in MeshSurfaceTags :
              Cardinality({ s \in surfaces(core) : core.global_id[s] = t }) = 1
        /\ (volumes(core) \cup surfaces(core)) \cap (OfCategory("Group") \cup FileSets) = {}

C19_Witness ==
    /\ Returned
    /\ NumVolumes = 2
    /\ \E t \in MeshSurfaceTags : Cardinality(ListedBy(t)) = 2
    /\ Cardinality(MeshSurfaceTags) = 2
    /\ Cardinality(surfaces(core)) = 2
    /\ Cardinality(volumes(core)) = 2

\* C20: in every state during and after a build every Surface has one or two
\* parent Volumes, its forward slot is set, and its parents are exactly the
\* non-unset handles of its sense pair, all of them Volumes.
C20_SurfaceParents ==
    \A s \in surfaces(core) :
        LET ps   == Range(adjacent_volumes(core, s))
            pair == core.surf_sense[s]
        IN /\ Cardinality(ps) >= 1
           /\ Cardinality(ps) <= 2
           /\ pair[1] # Unset
           /\ ps = { pair[1], pair[2] } \ { Unset }
           /\ ps \subseteq volumes(core)

\* the Geometry lists no shape twice
DistinctSolids ==
    \A k, l \in DOMAIN mesh.solids : k # l => mesh.solids[k][1] # mesh.solids[l][1]

\* the mesh in use was produced by mesh_geometry
MeshProduced == Meshed \/ (op = "make_from_mesh" /\ mesh.solids # <<>>)

\* after mesh_geometry every imported volume is in exactly one physical
\* group, there is one group per distinct material, named "mat:<material>",
\* holding exactly the volumes of the solids with that material
PhysicalGroupsPerMaterial ==
    LET pairs     == mesh.solids
        materials == { pairs[k][2] : k \in DOMAIN pairs }
        volumes_of(m) == { mesh.bound[pairs[k][1]] : k \in { x \in DOMAIN pairs : pairs[x][2] = m } }
    IN /\ \A v \in Range(mesh.bound) :
             Cardinality(get_physical_groups_for_entity(mesh.physical, v)) = 1
       /\ Len(mesh.physical) = Cardinality(materials)
       /\ \A m \in materials :
             /\ Cardinality({ g \in DOMAIN mesh.physical :
                                mesh.physical[g].name = <<"mat:">> \o m }) = 1
             /\ \A g \in DOMAIN mesh.physical :
                   mesh.physical[g].name = <<"mat:">> \o m
                      => mesh.physical[g].tags = volumes_of(m)

\* the build stopped at the material-count check of lines 439-444
MaterialCountFailure == op = "make_from_mesh" /\ pc = "raised" /\ error = "ValueError"

\* C21: mesh_geometry establishes the build's precondition: every imported
\* volume is in exactly one physical group, one group per distinct material
\* named "mat:<material>" with exactly that material's volumes, and a build
\* over the mesh never fails on the material-count check.
C21_MeshEstablishesPrecondition ==
    /\ MeshProduced => PhysicalGroupsPerMaterial
    /\ ~ MaterialCountFailure

\* the same statement for a Geometry that lists no shape twice
MeshOfDistinctSolids ==
    DistinctSolids => C21_MeshEstablishesPrecondition

MeshOfDistinctSolidsBuilt ==
    /\ Returned
    /\ DistinctSolids
    /\ Len(mesh.solids) = 2
    /\ Len(mesh.physical) = 1

====
